---- MODULE Spec2Model ----
(***************************************************************************)
(* The SSE4 output pipeline of gemmlowp (internal/output_sse.h): output    *)
(* stages evaluated on 4-wide and 16-wide int32 fragments, the saturating  *)
(* cast to uint8, and the StoreFinalOutput specializations.                *)
(*                                                                         *)
(* An int32 lane is an integer of [INT32_MIN, INT32_MAX]; lane arithmetic  *)
(* wraps modulo 2^32 as the SSE instructions do.  A __m128i of int32 is a  *)
(* sequence of 4 lanes, an int32x16 fragment a sequence of 4 such vectors  *)
(* (data.val[0..3]).  A uint8x4 fragment is the 32-bit pattern the code    *)
(* keeps in a uint32_t; a uint8x16 fragment is the 16 bytes of a __m128i.  *)
(***************************************************************************)
EXTENDS Integers, Sequences, FiniteSets, TLC

INT32_MAX == 2147483647
INT32_MIN == (-INT32_MAX) - 1

\* Lanes of a __m128i holding int32 values.
kLanes == 4

(***************************************************************************)
(* Bounds of the model.                                                    *)
(***************************************************************************)
\* tiles start at rows 0..MaxRow and columns 0..MaxCol of the destination
MaxRow == 1
MaxCol == 1
\* number of int32 stages a pipeline may chain before the cast / the store
MaxStages == 2
\* raw accumulator fragments are AccFragment(0) .. AccFragment(NumFrags)
NumFrags == 2

(***************************************************************************)
(* 32-bit two's complement arithmetic, computed without leaving the int32  *)
(* range.                                                                  *)
(***************************************************************************)
\* _mm_add_epi32 on one lane
WrapAdd(a, b) ==
  IF a >= 0 /\ b > INT32_MAX - a
    THEN (a - INT32_MAX - 1) + (b - INT32_MAX - 1)
    ELSE IF a < 0 /\ b < INT32_MIN - a
      THEN (a + INT32_MAX + 1) + (b + INT32_MAX + 1)
      ELSE a + b

WrapNeg(a) == IF a = INT32_MIN THEN INT32_MIN ELSE -a

RECURSIVE MulNat(_, _)
MulNat(a, m) ==
  IF m = 0 THEN 0
  ELSE LET h == MulNat(a, m \div 2)
           d == WrapAdd(h, h)
       IN  IF m % 2 = 1 THEN WrapAdd(d, a) ELSE d

\* _mm_mullo_epi32 on one lane: the low 32 bits of the product
Mullo32(a, b) ==
  IF b >= 0 THEN MulNat(a, b)
  ELSE IF b = INT32_MIN THEN (IF a % 2 = 0 THEN 0 ELSE INT32_MIN)
  ELSE WrapNeg(MulNat(a, -b))

\* _mm_srai_epi32 on one lane: a count outside 0..31 fills with the sign bit
Srai32(a, count) ==
  IF count < 0 \/ count > 31 THEN (IF a < 0 THEN -1 ELSE 0)
  ELSE a \div (2 ^ count)

(***************************************************************************)
(* The vector helpers of fixedpoint.h used by the stages.                  *)
(***************************************************************************)
Dup(x) == [l \in 1..kLanes |-> x]
Add(a, b) == [l \in 1..kLanes |-> WrapAdd(a[l], b[l])]
Mul(a, b) == [l \in 1..kLanes |-> Mullo32(a[l], b[l])]
ShiftRight(a, offset) == [l \in 1..kLanes |-> Srai32(a[l], offset)]

(***************************************************************************)
(* SSE intrinsics.                                                         *)
(***************************************************************************)
SatU16(x) == IF x < 0 THEN 0 ELSE IF x > 65535 THEN 65535 ELSE x
\* a 16-bit lane read as a signed value
AsInt16(u) == IF u >= 32768 THEN u - 65536 ELSE u
SatU8(x) == IF x < 0 THEN 0 ELSE IF x > 255 THEN 255 ELSE x

\* _mm_packus_epi32(a, b): 8 lanes of 16 bits, signed 32 -> unsigned 16
mm_packus_epi32(a, b) ==
  [l \in 1..(2 * kLanes) |->
     IF l <= kLanes THEN SatU16(a[l]) ELSE SatU16(b[l - kLanes])]

\* _mm_packus_epi16(a, b): 16 bytes, SIGNED 16 -> unsigned 8
mm_packus_epi16(a, b) ==
  [l \in 1..(4 * kLanes) |->
     IF l <= 2 * kLanes THEN SatU8(AsInt16(a[l]))
                        ELSE SatU8(AsInt16(b[l - 2 * kLanes]))]

\* byte 3 of a 32-bit pattern read as a signed byte
AsInt8(b) == IF b >= 128 THEN b - 256 ELSE b

\* _mm_cvtsi128_si32 of a vector of 16 bytes: the low 32 bits as an int
mm_cvtsi128_si32(v) ==
  v[1] + 256 * v[2] + 65536 * v[3] + 16777216 * AsInt8(v[4])

\* byte i (0..3) of a 32-bit pattern, little endian
ByteOf(w, i) == (w \div (256 ^ i)) % 256

mm_max_epi32(a, b) == [l \in 1..kLanes |-> IF a[l] > b[l] THEN a[l] ELSE b[l]]
mm_min_epi32(a, b) == [l \in 1..kLanes |-> IF a[l] < b[l] THEN a[l] ELSE b[l]]

\* _mm_lddqu_si128(p): the 4 consecutive int32 entries starting at index idx
mm_lddqu_si128(vec, idx) == [l \in 1..kLanes |-> vec[idx + l - 1]]

(***************************************************************************)
(* Output stage parameters (the OutputStage structs the evaluators hold by *)
(* reference).  The vectors are long enough for every tile of the model.   *)
(***************************************************************************)
VecLen == MaxRow + MaxCol + 5 * kLanes

\* OutputStageBiasAddition::bias_vector = [5, 10, 15, 20, ...]
bias_vector == [i \in 0..(VecLen - 1) |-> 5 * (i + 1)]
\* OutputStageQuantizeDownInt32ToUint8ScalePC::result_mult_int / result_offset
result_mult_int_pc == [i \in 0..(VecLen - 1) |-> i + 2]
result_offset_pc == [i \in 0..(VecLen - 1) |-> 10 * i + 1]

\* result_offset, result_mult_int, result_shift of the uniform rescale and
\* min, max of the clamp, fixed for one pipeline
MakeStages(o, m, s, lo, hi) ==
  [result_offset |-> o, result_mult_int |-> m, result_shift |-> s,
   min |-> lo, max |-> hi]

StageConfigs ==
  { MakeStages(0, 3, 4, 0, 255),
    MakeStages(0, 3, 0, 0, 255),
    MakeStages(1, 2, 1, 10, 20),
    MakeStages(-2, -1, -1, 0, 255) }

(***************************************************************************)
(* Stage evaluators on SSE4FragmentInt32x4x1.                              *)
(***************************************************************************)
\* kRoundingTerm with the rounding bit one position too high
kRoundingTerm_OneTooHigh(result_shift) ==
  IF result_shift < 1 THEN 0 ELSE 2 ^ result_shift


kRoundingTerm(result_shift) ==
  IF result_shift < 1 THEN 0 ELSE 2 ^ (result_shift - 1)

\* Add(Mul(Add(input, Dup(offset)), mult), kRoundingTerm), then ShiftRight;
\* offset and mult are vectors of 4 lanes here
Rescale(input, offset, mult, result_shift) ==
  LET a == Add(Mul(Add(input, offset), mult), Dup(kRoundingTerm(result_shift)))
  IN  ShiftRight(a, result_shift)

\* OutputStageQuantizeDownInt32ToUint8Scale
EvalScale4(s, input, row, col) ==
  Rescale(input, Dup(s.result_offset), Dup(s.result_mult_int), s.result_shift)

(***************************************************************************)
(* The per-channel evaluators initialise a `const std::int32_t` from a     *)
(* 128-bit load and then pass it to Dup / Mul.  The two ways a build can   *)
(* resolve that: "lane0" keeps the declared scalar (the entry at the index,*)
(* broadcast by Dup), "vector" keeps the 4 loaded entries lane for lane.   *)
(***************************************************************************)
PCReadings == {"lane0", "vector"}

PCParam(reading, vec, idx) ==
  IF reading = "lane0" THEN Dup(mm_lddqu_si128(vec, idx)[1])
                       ELSE mm_lddqu_si128(vec, idx)

\* OutputStageQuantizeDownInt32ToUint8ScalePC<VectorShape::Col>: index row
EvalScalePCCol4(s, reading, input, row, col) ==
  Rescale(input, PCParam(reading, result_offset_pc, row),
          PCParam(reading, result_mult_int_pc, row), s.result_shift)

\* OutputStageQuantizeDownInt32ToUint8ScalePC<VectorShape::Row>: index col
EvalScalePCRow4(s, reading, input, row, col) ==
  Rescale(input, PCParam(reading, result_offset_pc, col),
          PCParam(reading, result_mult_int_pc, col), s.result_shift)

\* the bias evaluator indexing with the other coordinate
EvalBiasAddition4_SwappedIndex(kShape, input, row, col) ==
  LET bias == IF kShape = "Row" THEN Dup(bias_vector[row])
                                ELSE mm_lddqu_si128(bias_vector, col)
  IN  Add(input, bias)

\* the bias evaluator with the shape test inverted
EvalBiasAddition4_SwappedShape(kShape, input, row, col) ==
  LET bias == IF kShape = "Col" THEN Dup(bias_vector[col])
                                ELSE mm_lddqu_si128(bias_vector, row)
  IN  Add(input, bias)

\* OutputStageBiasAddition<VectorType>
EvalBiasAddition4(kShape, input, row, col) ==
  LET bias == IF kShape = "Row" THEN Dup(bias_vector[col])
                                ELSE mm_lddqu_si128(bias_vector, row)
  IN  Add(input, bias)

\* the clamp taking the minimum against min and the maximum against max
EvalClamp4_MinMaxSwapped(s, input, row, col) ==
  mm_max_epi32(mm_min_epi32(input, Dup(s.min)), Dup(s.max))

\* OutputStageClamp
EvalClamp4(s, input, row, col) ==
  mm_min_epi32(mm_max_epi32(input, Dup(s.min)), Dup(s.max))

\* the zero vector read as 8 lanes of 16 bits
Zero16 == [l \in 1..(2 * kLanes) |-> 0]

\* OutputStageSaturatingCastToUint8 on SSE4FragmentInt32x4x1
EvalSaturatingCast4(input) ==
  LET res_16 == mm_packus_epi32(input, Dup(0))
      res_8 == mm_packus_epi16(res_16, Zero16)
  IN  mm_cvtsi128_si32(res_8)

\* the 16-wide cast pairing val[0] with val[2] and val[1] with val[3]
EvalSaturatingCast16_Interleaved(input) ==
  LET q16 == [i \in 0..1 |-> mm_packus_epi32(input[i + 1], input[i + 3])]
  IN  mm_packus_epi16(q16[0], q16[1])

\* OutputStageSaturatingCastToUint8 on SSE4FragmentInt32x16x1
EvalSaturatingCast16(input) ==
  LET q16 == [i \in 0..1 |-> mm_packus_epi32(input[2 * i + 1], input[2 * i + 2])]
  IN  mm_packus_epi16(q16[0], q16[1])

Int32Stages == {"Scale", "ScalePCCol", "ScalePCRow", "BiasRow", "BiasCol", "Clamp"}

\* ImplInt32x4: the 4-wide evaluator the stage type selects
Eval4(kind, s, reading, input, row, col) ==
  CASE kind = "Scale" -> EvalScale4(s, input, row, col)
    [] kind = "ScalePCCol" -> EvalScalePCCol4(s, reading, input, row, col)
    [] kind = "ScalePCRow" -> EvalScalePCRow4(s, reading, input, row, col)
    [] kind = "BiasRow" -> EvalBiasAddition4("Row", input, row, col)
    [] kind = "BiasCol" -> EvalBiasAddition4("Col", input, row, col)
    [] kind = "Clamp" -> EvalClamp4(s, input, row, col)

\* the generic evaluator on SSE4FragmentInt32x16x1
Eval16(kind, s, reading, input, row, col) ==
  [i \in 1..4 |-> Eval4(kind, s, reading, input[i], row + 4 * (i - 1), col)]

(***************************************************************************)
(* The destination and StoreFinalOutput.                                   *)
(***************************************************************************)
DstRows == MaxRow + 4 * kLanes
DstCols == MaxCol + 1
DstSize == DstRows * DstCols
\* the destination before the store
InitDst == [a \in 0..(DstSize - 1) |-> 100 + a]

\* dst->data(row, col) of a column-major destination, as an element index
DstData(row, col) == row + col * DstRows

\* the elements of the sequence elems written at addr, addr + 1, ...
StoreAt(d, addr, elems) ==
  [a \in DOMAIN d |-> IF a >= addr /\ a < addr + Len(elems)
                        THEN elems[a - addr + 1] ELSE d[a]]

\* the 4-wide uint8 store done as a 64-bit store of the zero-extended value
StoreFinalOutputUint8x4_Store64(value, d, row, col) ==
  StoreAt(d, DstData(row, col),
          [i \in 1..8 |-> IF i <= 4 THEN ByteOf(value, i - 1) ELSE 0])

\* _mm_store_ss on the uint32_t of the fragment: the low 32 bits, 4 bytes
StoreFinalOutputUint8x4(value, d, row, col) ==
  StoreAt(d, DstData(row, col), [i \in 1..4 |-> ByteOf(value, i - 1)])

\* _mm_storeu_si128: 16 bytes
StoreFinalOutputUint8x16(value, d, row, col) ==
  StoreAt(d, DstData(row, col), value)

\* _mm_storeu_si128: 4 int32
StoreFinalOutputInt32x4(value, d, row, col) ==
  StoreAt(d, DstData(row, col), value)

\* The loop of 4 stores, each to dst->data(row, col).  The operand `value`
\* is the whole fragment; sub[i] is the 4-lane group (data.val[sub[i]]) the
\* store of iteration i takes from it.
RECURSIVE StoreLoop(_, _, _, _, _, _)
StoreLoop(i, value, sub, d, row, col) ==
  IF i >= 4 THEN d
  ELSE StoreLoop(i + 1, value, sub,
                 StoreAt(d, DstData(row, col), value[sub[i] + 1]),
                 row, col)

StoreFinalOutputInt32x16(value, sub, d, row, col) ==
  StoreLoop(0, value, sub, d, row, col)

\* the addresses of the stores the loop issues, in order
StoreAddrsInt32x16(row, col) == [i \in 1..4 |-> DstData(row, col)]

(***************************************************************************)
(* Raw accumulator fragments handed to the pipeline.                       *)
(***************************************************************************)
Sample == <<INT32_MIN, -1, 0, 1, INT32_MAX, 255, 256, 1000, 40000, 100>>
AccLane(k, j) == Sample[((3 * j + k) % Len(Sample)) + 1]
AccFragment4(k) == [l \in 1..kLanes |-> AccLane(k, l - 1)]
AccFragment16(k) ==
  [i \in 1..4 |-> [l \in 1..kLanes |-> AccLane(k, kLanes * (i - 1) + l - 1)]]

\* the 16 lanes of an int32x16 fragment in element order
Flatten(v) == [j \in 1..(4 * kLanes) |-> v[((j - 1) \div kLanes) + 1][((j - 1) % kLanes) + 1]]

\* the 4-lane groups a 16-wide int32 store may take from its operand `value`:
\* the leading 16 bytes every time, or data.val[i] in iteration i
StoreOperands == { [i \in 0..3 |-> 0], [i \in 0..3 |-> i] }

(***************************************************************************)
(* One pipeline invocation on one tile: the raw fragment goes through the  *)
(* stages in order, then to the store.                                     *)
(***************************************************************************)
VARIABLES
  pc,         \* "idle", "eval" (stages being applied), "done" (stored)
  width,      \* 4 or 16 elements in the fragment
  row, col,   \* the tile origin passed to Eval and StoreFinalOutput
  stages,     \* the OutputStage parameters of this call
  acc,        \* the raw accumulator fragment
  frag,       \* the current fragment
  ftype,      \* "i32" or "u8": element type of frag
  prev,       \* the input of the stage evaluated last
  hist,       \* the stages evaluated so far, in order
  dst,        \* the destination buffer, by element index
  storeAddrs  \* the address of each store instruction issued, in order

vars == <<pc, width, row, col, stages, acc, frag, ftype, prev, hist,
          dst, storeAddrs>>

Init ==
  /\ pc = "idle"
  /\ width = 0
  /\ row = 0
  /\ col = 0
  /\ stages = MakeStages(0, 1, 0, 0, 255)
  /\ acc = <<>>
  /\ frag = <<>>
  /\ ftype = "i32"
  /\ prev = <<>>
  /\ hist = <<>>
  /\ dst = InitDst
  /\ storeAddrs = <<>>

\* the outer loop hands a raw fragment and its tile origin to the pipeline
Start ==
  /\ pc = "idle"
  /\ \E w \in {4, 16}, k \in 0..NumFrags, r \in 0..MaxRow, c \in 0..MaxCol,
        s \in StageConfigs :
       /\ width' = w
       /\ row' = r
       /\ col' = c
       /\ stages' = s
       /\ acc' = IF w = 4 THEN AccFragment4(k) ELSE AccFragment16(k)
       /\ frag' = acc'
  /\ pc' = "eval"
  /\ UNCHANGED <<ftype, prev, hist, dst, storeAddrs>>

\* an int32 -> int32 stage can be evaluated next
CanEvalInt32 ==
  /\ pc = "eval"
  /\ ftype = "i32"
  /\ Len(hist) < MaxStages

\* the stage's evaluator for the fragment type in flight; reading is how the
\* build resolves the per-channel loads (PCReadings), which only the two
\* per-channel stages look at
EvalInt32(kind, reading) ==
  IF width = 4 THEN Eval4(kind, stages, reading, frag, row, col)
               ELSE Eval16(kind, stages, reading, frag, row, col)

\* OutputStageQuantizeDownInt32ToUint8Scale
EvalScale ==
  /\ CanEvalInt32
  /\ frag' = EvalInt32("Scale", "lane0")
  /\ prev' = frag
  /\ hist' = Append(hist, "Scale")
  /\ UNCHANGED <<pc, width, row, col, stages, acc, ftype, dst, storeAddrs>>

\* OutputStageQuantizeDownInt32ToUint8ScalePC<VectorShape::Col>
EvalScalePCCol ==
  /\ CanEvalInt32
  /\ \E reading \in PCReadings : frag' = EvalInt32("ScalePCCol", reading)
  /\ prev' = frag
  /\ hist' = Append(hist, "ScalePCCol")
  /\ UNCHANGED <<pc, width, row, col, stages, acc, ftype, dst, storeAddrs>>

\* OutputStageQuantizeDownInt32ToUint8ScalePC<VectorShape::Row>
EvalScalePCRow ==
  /\ CanEvalInt32
  /\ \E reading \in PCReadings : frag' = EvalInt32("ScalePCRow", reading)
  /\ prev' = frag
  /\ hist' = Append(hist, "ScalePCRow")
  /\ UNCHANGED <<pc, width, row, col, stages, acc, ftype, dst, storeAddrs>>

\* OutputStageBiasAddition with a row-shaped bias vector
EvalBiasRow ==
  /\ CanEvalInt32
  /\ frag' = EvalInt32("BiasRow", "lane0")
  /\ prev' = frag
  /\ hist' = Append(hist, "BiasRow")
  /\ UNCHANGED <<pc, width, row, col, stages, acc, ftype, dst, storeAddrs>>

\* OutputStageBiasAddition with a column-shaped bias vector
EvalBiasCol ==
  /\ CanEvalInt32
  /\ frag' = EvalInt32("BiasCol", "lane0")
  /\ prev' = frag
  /\ hist' = Append(hist, "BiasCol")
  /\ UNCHANGED <<pc, width, row, col, stages, acc, ftype, dst, storeAddrs>>

\* OutputStageClamp
EvalClamp ==
  /\ CanEvalInt32
  /\ frag' = EvalInt32("Clamp", "lane0")
  /\ prev' = frag
  /\ hist' = Append(hist, "Clamp")
  /\ UNCHANGED <<pc, width, row, col, stages, acc, ftype, dst, storeAddrs>>

\* the saturating cast to uint8, the last stage of a pipeline that has it
EvalSaturatingCast ==
  /\ pc = "eval"
  /\ ftype = "i32"
  /\ frag' = IF width = 4 THEN EvalSaturatingCast4(frag)
                          ELSE EvalSaturatingCast16(frag)
  /\ ftype' = "u8"
  /\ prev' = frag
  /\ hist' = Append(hist, "SaturatingCast")
  /\ UNCHANGED <<pc, width, row, col, stages, acc, dst, storeAddrs>>

StoreUint8x4 ==
  /\ pc = "eval" /\ ftype = "u8" /\ width = 4
  /\ dst' = StoreFinalOutputUint8x4(frag, dst, row, col)
  /\ storeAddrs' = <<DstData(row, col)>>
  /\ pc' = "done"
  /\ UNCHANGED <<width, row, col, stages, acc, frag, ftype, prev, hist>>

StoreUint8x16 ==
  /\ pc = "eval" /\ ftype = "u8" /\ width = 16
  /\ dst' = StoreFinalOutputUint8x16(frag, dst, row, col)
  /\ storeAddrs' = <<DstData(row, col)>>
  /\ pc' = "done"
  /\ UNCHANGED <<width, row, col, stages, acc, frag, ftype, prev, hist>>

StoreInt32x4 ==
  /\ pc = "eval" /\ ftype = "i32" /\ width = 4
  /\ dst' = StoreFinalOutputInt32x4(frag, dst, row, col)
  /\ storeAddrs' = <<DstData(row, col)>>
  /\ pc' = "done"
  /\ UNCHANGED <<width, row, col, stages, acc, frag, ftype, prev, hist>>

StoreInt32x16 ==
  /\ pc = "eval" /\ ftype = "i32" /\ width = 16
  /\ \E sub \in StoreOperands :
       dst' = StoreFinalOutputInt32x16(frag, sub, dst, row, col)
  /\ storeAddrs' = StoreAddrsInt32x16(row, col)
  /\ pc' = "done"
  /\ UNCHANGED <<width, row, col, stages, acc, frag, ftype, prev, hist>>

Next ==
  \/ Start
  \/ EvalScale
  \/ EvalScalePCCol
  \/ EvalScalePCRow
  \/ EvalBiasRow
  \/ EvalBiasCol
  \/ EvalClamp
  \/ EvalSaturatingCast
  \/ StoreUint8x4
  \/ StoreUint8x16
  \/ StoreInt32x4
  \/ StoreInt32x16

Spec == Init /\ [][Next]_vars

TypeOK ==
  /\ pc \in {"idle", "eval", "done"}
  /\ width \in {0, 4, 16}
  /\ ftype \in {"i32", "u8"}
  /\ Len(hist) <= MaxStages + 1

(***************************************************************************)
(* The scalar reference: the evaluators of output.h on a fragment of one   *)
(* element at logical coordinates (row, col).                              *)
(***************************************************************************)
ScalarRescale(x, offset, mult, result_shift) ==
  Srai32(WrapAdd(Mullo32(WrapAdd(x, offset), mult),
                 IF result_shift < 1 THEN 0 ELSE 2 ^ (result_shift - 1)),
         result_shift)

ScalarReference(kind, s, x, r, c) ==
  CASE kind = "Scale" ->
         ScalarRescale(x, s.result_offset, s.result_mult_int, s.result_shift)
    [] kind = "ScalePCCol" ->
         ScalarRescale(x, result_offset_pc[r], result_mult_int_pc[r], s.result_shift)
    [] kind = "ScalePCRow" ->
         ScalarRescale(x, result_offset_pc[c], result_mult_int_pc[c], s.result_shift)
    [] kind = "BiasRow" -> WrapAdd(x, bias_vector[c])
    [] kind = "BiasCol" -> WrapAdd(x, bias_vector[r])
    [] kind = "Clamp" ->
         LET lo == IF x > s.min THEN x ELSE s.min
         IN  IF lo < s.max THEN lo ELSE s.max

(***************************************************************************)
(* Views of the state used by the properties.                              *)
(***************************************************************************)
LastStage == IF hist = <<>> THEN "none" ELSE hist[Len(hist)]

\* the int32 elements of an int32 fragment, in element order
Int32Elements(f) == IF width = 4 THEN f ELSE Flatten(f)

\* the bytes of a uint8 fragment, in element order
Uint8Elements(f) ==
  IF width = 4 THEN [i \in 1..kLanes |-> ByteOf(f, i - 1)] ELSE f

\* the value of [0, 255] nearest to x
ClampToByte(x) == IF x <= 0 THEN 0 ELSE IF x >= 255 THEN 255 ELSE x

\* the exact (in + offset) * mult + r is an int32, and so is every step to it
ExactFits(x, o, m, r) ==
  /\ (o >= 0 => x <= INT32_MAX - o)
  /\ (o < 0 => x >= INT32_MIN - o)
  /\ m # INT32_MIN
  /\ LET t == x + o
         am == IF m < 0 THEN -m ELSE m
     IN  /\ t # INT32_MIN
         /\ (am # 0 => (IF t < 0 THEN -t ELSE t) <= (INT32_MAX - r) \div am)

(***************************************************************************)
(* C1: the generic 16-wide evaluator returns, in order, the 4-wide results *)
(* of val[i] at (row + 4*i, col), and so element j of its output is the    *)
(* scalar reference of the stage on element j of the input at              *)
(* (row + j, col), for every int32 stage.                                  *)
(***************************************************************************)
C1_Generic16MatchesScalarReference ==
  (width = 16 /\ LastStage \in Int32Stages) =>
    /\ \E reading \in PCReadings : \A i \in 1..4 :
         frag[i] = Eval4(LastStage, stages, reading, prev[i], row + 4 * (i - 1), col)
    /\ \A j \in 0..15 :
         Flatten(frag)[j + 1] =
           ScalarReference(LastStage, stages, Flatten(prev)[j + 1], row + j, col)

(***************************************************************************)
(* C2: the saturating cast maps every input <= 0 to 0, every input >= 255  *)
(* to 255 and every input of [0, 255] to itself, on the 4-wide and on the  *)
(* 16-wide path.                                                           *)
(***************************************************************************)
C2_SaturatingCastClampsToByte ==
  (LastStage = "SaturatingCast") =>
    \A j \in DOMAIN Int32Elements(prev) :
      Uint8Elements(frag)[j] = ClampToByte(Int32Elements(prev)[j])

C4_Store16WritesAllSixteen ==
  (pc = "done" /\ ftype = "i32" /\ width = 16) =>
    /\ \A i, j \in DOMAIN storeAddrs : i # j => storeAddrs[i] # storeAddrs[j]
    /\ \A j \in 0..15 : dst[DstData(row, col) + j] = Flatten(frag)[j + 1]

(***************************************************************************)
(* C5: the uniform rescale gives (in + offset) * multiplier when shift = 0,*)
(* ((in + offset) * multiplier + 2^(k-1)) >> k when shift = k > 0, and     *)
(* adds no rounding term when shift <= 0.  The products are 32-bit; where  *)
(* the exact value is an int32 the output is that exact value.             *)
(***************************************************************************)
C5_UniformRescaleRounding ==
  (LastStage = "Scale") =>
    LET o == stages.result_offset
        m == stages.result_mult_int
        k == stages.result_shift
    IN  \A j \in DOMAIN Int32Elements(prev) :
          LET x == Int32Elements(prev)[j]
              out == Int32Elements(frag)[j]
              p == Mullo32(WrapAdd(x, o), m)
          IN  /\ (k = 0 => out = p)
              /\ (k > 0 => out = Srai32(WrapAdd(p, 2 ^ (k - 1)), k))
              /\ (k <= 0 => out = Srai32(p, k))
              /\ (k = 0 /\ ExactFits(x, o, m, 0) => out = (x + o) * m)
              /\ (k > 0 /\ ExactFits(x, o, m, 2 ^ (k - 1)) =>
                    out = ((x + o) * m + 2 ^ (k - 1)) \div (2 ^ k))

\* 1000 rescaled by 3 / 2^4: the rounding term turns 187 into 188
C5_Witness ==
  /\ hist = <<"Scale">>
  /\ stages.result_shift = 4 /\ stages.result_mult_int = 3
  /\ \E j \in DOMAIN Int32Elements(prev) :
       Int32Elements(prev)[j] = 1000 /\ Int32Elements(frag)[j] = 188

(***************************************************************************)
(* C6: on a 4-wide fragment at (row, col) the per-channel rescale indexed  *)
(* by row uses entries row, row+1, row+2, row+3 for lanes 0..3, and the    *)
(* one indexed by column uses the entry col for every lane.                *)
(***************************************************************************)
C6_PerChannelIndexing ==
  /\ (width = 4 /\ LastStage = "ScalePCCol") =>
       \A l \in 1..4 :
         frag[l] = ScalarRescale(prev[l], result_offset_pc[row + l - 1],
                                 result_mult_int_pc[row + l - 1],
                                 stages.result_shift)
  /\ (width = 4 /\ LastStage = "ScalePCRow") =>
       \A l \in 1..4 :
         frag[l] = ScalarRescale(prev[l], result_offset_pc[col],
                                 result_mult_int_pc[col], stages.result_shift)

(***************************************************************************)
(* C7: on a 4-wide fragment at (row, col) a row-shaped bias adds           *)
(* bias[col] to every lane, a column-shaped bias adds bias[row + l] to     *)
(* lane l.                                                                 *)
(***************************************************************************)
C7_BiasAddIndexing ==
  /\ (width = 4 /\ LastStage = "BiasRow") =>
       \A l \in 1..4 : frag[l] = WrapAdd(prev[l], bias_vector[col])
  /\ (width = 4 /\ LastStage = "BiasCol") =>
       \A l \in 1..4 : frag[l] = WrapAdd(prev[l], bias_vector[row + l - 1])

\* a column-shaped bias added at row 1, column 0: lanes get 10, 15, 20, 25
C7_Witness ==
  /\ width = 4 /\ hist = <<"BiasCol">> /\ row = 1 /\ col = 0
  /\ prev[1] = 0 /\ frag[1] = 10
  /\ prev[2] = 255 /\ frag[2] = 270

(***************************************************************************)
(* C8 as stated: a column-shaped bias [5, 10, 15, 20] on a 4-wide fragment *)
(* at row 0, column 0 adds 5 to each of the four elements.                 *)
(***************************************************************************)
C8_ColumnBiasBroadcasts5 ==
  (width = 4 /\ hist = <<"BiasCol">> /\ row = 0 /\ col = 0) =>
    \A l \in 1..4 : frag[l] = WrapAdd(prev[l], 5)

(***************************************************************************)
(* C8 amended: a column-shaped bias [5, 10, 15, 20] on a 4-wide fragment   *)
(* at row 0, column 0 adds 5, 10, 15, 20 to elements 0, 1, 2, 3.           *)
(***************************************************************************)
C8_ColumnBiasAddsLaneForLane ==
  (width = 4 /\ hist = <<"BiasCol">> /\ row = 0 /\ col = 0) =>
    /\ [l \in 1..4 |-> bias_vector[l - 1]] = <<5, 10, 15, 20>>
    /\ \A l \in 1..4 : frag[l] = WrapAdd(prev[l], <<5, 10, 15, 20>>[l])

C8_Witness ==
  /\ width = 4 /\ hist = <<"BiasCol">> /\ row = 0 /\ col = 0
  /\ prev = <<-1, INT32_MAX, 1000, INT32_MIN>>
  /\ frag[1] = 4 /\ frag[3] = 1015

\* the stage parameters of the end-to-end scenario
EndToEndStages == MakeStages(0, 3, 4, 0, 255)

(***************************************************************************)
(* C9 as stated: the accumulator value 1000 through the uniform rescale    *)
(* (offset 0, multiplier 3, shift 4), the clamp to [0, 255] and the        *)
(* saturating cast is 187 after the rescale, 187 after the clamp and the   *)
(* byte 187 at the end.                                                    *)
(***************************************************************************)
C9_EndToEnd187 ==
  (stages = EndToEndStages /\ pc # "idle") =>
    \A j \in DOMAIN Int32Elements(acc) :
      (Int32Elements(acc)[j] = 1000) =>
        /\ (hist = <<"Scale">> => Int32Elements(frag)[j] = 187)
        /\ (hist = <<"Scale", "Clamp">> => Int32Elements(frag)[j] = 187)
        /\ (hist = <<"Scale", "Clamp", "SaturatingCast">> =>
              Uint8Elements(frag)[j] = 187)

(***************************************************************************)
(* C9 amended: the same pipeline gives (1000*3 + 8) >> 4 = 188 after the   *)
(* rescale, 188 after the clamp and the byte 188 at the end.               *)
(***************************************************************************)
C9_EndToEnd188 ==
  (stages = EndToEndStages /\ pc # "idle") =>
    \A j \in DOMAIN Int32Elements(acc) :
      (Int32Elements(acc)[j] = 1000) =>
        /\ (hist = <<"Scale">> => Int32Elements(frag)[j] = 188)
        /\ (hist = <<"Scale", "Clamp">> => Int32Elements(frag)[j] = 188)
        /\ (hist = <<"Scale", "Clamp", "SaturatingCast">> =>
              Uint8Elements(frag)[j] = 188)

C9_Witness ==
  /\ stages = EndToEndStages
  /\ hist = <<"Scale", "Clamp", "SaturatingCast">>
  /\ \E j \in DOMAIN Int32Elements(acc) :
       Int32Elements(acc)[j] = 1000 /\ Uint8Elements(frag)[j] = 188

(***************************************************************************)
(* C10: the store of a 4-wide uint8 fragment writes the fragment's four    *)
(* bytes, in order, at dst->data(row, col) and leaves every other byte of  *)
(* the destination as it was.                                              *)
(***************************************************************************)
C10_StoreUint8x4WritesFourBytes ==
  (pc = "done" /\ ftype = "u8" /\ width = 4) =>
    /\ storeAddrs = <<DstData(row, col)>>
    /\ \A a \in DOMAIN dst :
         dst[a] = IF a >= DstData(row, col) /\ a < DstData(row, col) + 4
                    THEN Uint8Elements(frag)[a - DstData(row, col) + 1]
                    ELSE InitDst[a]

\* four bytes stored that differ from what was there, the next four untouched
C10_Witness ==
  /\ pc = "done" /\ ftype = "u8" /\ width = 4 /\ row = 1 /\ col = 1
  /\ \A i \in 0..3 : dst[DstData(row, col) + i] # InitDst[DstData(row, col) + i]
  /\ \E i \in 0..3 : dst[DstData(row, col) + i] \notin {0, 255}
  /\ \A i \in 4..7 : dst[DstData(row, col) + i] = InitDst[DstData(row, col) + i]
====
